---- MODULE Spec2Model ----
(***************************************************************************)
(* A model of evm/src/trace/node.rs: one CallTraceNode of the call-trace   *)
(* arena, its two in-place decode passes (decode_function and              *)
(* decode_precompile) and its three read-only exporters (parity_result,    *)
(* parity_action, geth_trace).                                             *)
(*                                                                         *)
(* Byte strings are sequences of numbers 0..255.  Rust Strings are TLA+    *)
(* strings.  Option<T> is a sequence of length at most one (<<>> is None). *)
(* Result<T, E> is a record [ok |-> TRUE, v |-> t] or [ok |-> FALSE].      *)
(* An ABI word is one byte wide here (32 in the EVM).                      *)
(***************************************************************************)
EXTENDS Integers, Sequences, FiniteSets, TLC

VARIABLES
    node,   \* the CallTraceNode the calls are made on
    call,   \* the last call made on it: the operation and its arguments
    pre,    \* the node as it was when that call was entered
    res     \* how that call ended: returned (with its value) or panicked

vars == <<node, call, pre, res>>

----------------------------------------------------------------------------
(* Bounds                                                                  *)

\* The longest candidate list handed to decode_function.
MaxCands == 2

----------------------------------------------------------------------------
(* Option, Result and the RawOrDecoded sum types                           *)

None == <<>>
Some(v) == <<v>>

Err == [ok |-> FALSE]
Ok(v) == [ok |-> TRUE, v |-> v]

\* RawOrDecodedCall::Raw / RawOrDecodedReturnData::Raw
Raw(bytes) == [tag |-> "Raw", bytes |-> bytes]

\* RawOrDecodedCall::Decoded(name, signature, args)
DecodedCall(name, signature, args) ==
    [tag |-> "Decoded", name |-> name, signature |-> signature, args |-> args]

\* RawOrDecodedReturnData::Decoded(text)
DecodedReturn(text) == [tag |-> "Decoded", text |-> text]

IsRaw(x) == x.tag = "Raw"
IsDecoded(x) == x.tag = "Decoded"

\* RawOrDecodedCall::to_raw / RawOrDecodedReturnData::to_raw
to_raw(x) == IF IsRaw(x) THEN x.bytes ELSE <<>>

----------------------------------------------------------------------------
(* Constants of the program                                                *)

SELECTOR_LEN == 4

CHEATCODE_ADDRESS == "0x7109709ECfa91a80626fF3989D68f67F5b1DD12D"

\* Address::default()
DefaultAddress == "0x0000000000000000000000000000000000000000"

PRECOMPILE == "PRECOMPILE"

CallKinds == {"Call", "StaticCall", "CallCode", "DelegateCall", "Create", "Create2"}

\* revm::Return, the codes the model distinguishes
Statuses == {"Return", "SelfDestruct", "Revert"}

----------------------------------------------------------------------------
(* Strings: hex::encode, join, format!                                     *)

HexDigits == <<"0", "1", "2", "3", "4", "5", "6", "7",
               "8", "9", "a", "b", "c", "d", "e", "f">>

RECURSIVE HexEncode(_)
\* hex::encode(bytes): two lower-case hex digits per byte
HexEncode(bytes) ==
    IF bytes = <<>> THEN ""
    ELSE HexDigits[(Head(bytes) \div 16) + 1] \o HexDigits[(Head(bytes) % 16) + 1]
         \o HexEncode(Tail(bytes))

RECURSIVE Join(_, _)
\* [String]::join(sep)
Join(strs, sep) ==
    IF strs = <<>> THEN ""
    ELSE IF Len(strs) = 1 THEN strs[1]
    ELSE strs[1] \o sep \o Join(Tail(strs), sep)

\* format!(r#""{}""#, s)
Quote(s) == "\"" \o s \o "\""

----------------------------------------------------------------------------
(* ABI functions and ABI decoding (ethers::abi::Function)                  *)

\* Function::signature(): name(inputs), followed by :(outputs) when there are any
Signature(func) ==
    IF func.outputs = <<>>
    THEN func.name \o "(" \o Join(func.inputs, ",") \o ")"
    ELSE func.name \o "(" \o Join(func.inputs, ",") \o "):("
         \o Join(func.outputs, ",") \o ")"

\* Whether one ABI word is a value of the type
ValidWord(ty, b) == ty = "bool" => b \in {0, 1}

\* Positional ABI decoding of bytes against a list of types, one word per type;
\* trailing bytes are ignored.  An empty type list decodes anything to no tokens.
Decode(types, bytes) ==
    IF Len(bytes) < Len(types) THEN Err
    ELSE IF \E i \in 1..Len(types) : ~ValidWord(types[i], bytes[i]) THEN Err
    ELSE Ok([i \in 1..Len(types) |-> [ty |-> types[i], val |-> bytes[i]]])

decode_input(func, bytes) == Decode(func.inputs, bytes)
decode_output(func, bytes) == Decode(func.outputs, bytes)

\* The canonical text of a token
FormatToken(token) ==
    CASE token.ty = "bool" -> (IF token.val = 1 THEN "true" ELSE "false")
      [] token.ty = "address" -> "0x" \o HexEncode(<<token.val>>)
      [] OTHER -> ToString(token.val)

\* utils::label(token, labels)
label(token, labels) ==
    IF token.ty = "address" /\ FormatToken(token) \in DOMAIN labels
    THEN labels[FormatToken(token)] \o " (" \o FormatToken(token) \o ")"
    ELSE FormatToken(token)

\* tokens.iter().map(|token| utils::label(token, labels)).collect()
LabelAll(tokens, labels) == [i \in 1..Len(tokens) |-> label(tokens[i], labels)]

----------------------------------------------------------------------------
(* The pools the arguments and the node are drawn from                     *)

\* 0xa9059cbb
Selector == <<169, 5, 156, 187>>

transfer == [name |-> "transfer", inputs |-> <<"bool">>, outputs |-> <<"bool">>]
\* a function from an external database: same selector, no outputs specified
xfer == [name |-> "xfer", inputs |-> <<"bool">>, outputs |-> <<>>]
ecrecover == [name |-> "ecrecover", inputs |-> <<"uint">>, outputs |-> <<"address">>]

CandidatePool == {transfer, xfer}
PrecompilePool == {ecrecover, transfer}

RECURSIVE SeqsUpTo(_, _)
SeqsUpTo(S, n) ==
    IF n = 0 THEN {<<>>}
    ELSE LET shorter == SeqsUpTo(S, n - 1)
         IN shorter \cup {Append(s, x) : s \in {t \in shorter : Len(t) = n - 1}, x \in S}

\* funcs: &[Function], the empty slice included
CandidateLists == SeqsUpTo(CandidatePool, MaxCands)

\* labels: &HashMap<Address, String>
LabelsPool == {[a \in {"0x01"} |-> "alice"]}

\* Raw call data: shorter than a selector, a bare selector, a selector and a word
InputPool == {<<>>, <<1, 31>>, SubSeq(Selector, 1, 3), Selector,
              Selector \o <<1>>, Selector \o <<31>>}

\* Raw return data
OutputPool == {<<>>, <<1>>, <<31>>}

\* Call targets
AddressPool == {CHEATCODE_ADDRESS, "0x00000000000000000000000000000000000000c0"}

\* What utils::decode_cheatcode_inputs(func, bytes, errors) can return
CheatResults == {None, Some(<<"cheat-arg">>)}

\* What decode::decode_revert(bytes, Some(errors), Some(status)) can return
RevertResults == {Err, Ok("Insufficient balance")}

\* One recorded execution step
Step1 == [pc |-> 0, op |-> "SSTORE", stack |-> <<1, 31>>, memory |-> <<31>>,
          state |-> [k \in {1} |-> [storage |-> 31, is_cold |-> TRUE]]]

\* The node's place in the arena: a childless root, and an inner node that made
\* one sub-call after emitting one log
Shapes ==
    { [parent |-> None, children |-> <<>>, idx |-> 0, logs |-> <<>>,
       ordering |-> <<>>, depth |-> 0, steps |-> <<>>],
      [parent |-> Some(0), children |-> <<2>>, idx |-> 1, logs |-> <<Raw(<<31>>)>>,
       ordering |-> <<[tag |-> "Log", idx |-> 0], [tag |-> "Call", idx |-> 0]>>,
       depth |-> 1, steps |-> <<Step1>>] }

\* The success flag the executor records for a status
Succeeded(status) == status \in {"Return", "SelfDestruct"}

----------------------------------------------------------------------------
(* The node                                                                *)

\* A node as the executor leaves it: call data and return data Raw, no label
NewNode(shape, kind, status, address, input, output) ==
    [parent |-> shape.parent, children |-> shape.children, idx |-> shape.idx,
     logs |-> shape.logs, ordering |-> shape.ordering,
     trace |-> [depth |-> shape.depth, success |-> Succeeded(status),
                caller |-> "0x00000000000000000000000000000000000000aa",
                address |-> address, kind |-> kind, value |-> 7,
                data |-> Raw(input), output |-> Raw(output), gas_cost |-> 21000,
                status |-> status, label |-> None, steps |-> shape.steps]]

Init ==
    /\ \E shape \in Shapes, kind \in CallKinds, status \in Statuses,
          address \in AddressPool, input \in InputPool, output \in OutputPool :
          node = NewNode(shape, kind, status, address, input, output)
    /\ call = [op |-> "new"]
    /\ pre = node
    /\ res = [outcome |-> "returned"]

Returned(v) == [outcome |-> "returned", value |-> v]
Panicked(msg) == [outcome |-> "panicked", msg |-> msg]

\* A panic unwinds out of the decode pass: no further call is made on the node
Running == res.outcome = "returned"

----------------------------------------------------------------------------
(* The exporters: &self, pure functions of the node                        *)

IsCallKind(kind) == kind \in {"Call", "StaticCall", "CallCode", "DelegateCall"}

\* CallTraceNode::parity_result
parity_result(n) ==
    IF IsCallKind(n.trace.kind)
    THEN [tag |-> "Call", gas_used |-> n.trace.gas_cost,
          output |-> to_raw(n.trace.output)]
    ELSE [tag |-> "Create", gas_used |-> n.trace.gas_cost,
          code |-> to_raw(n.trace.output), address |-> n.trace.address]

\* parity_action with the self-destruct test dropped
parity_action_ByKindOnly(n) ==
    IF IsCallKind(n.trace.kind)
    THEN [tag |-> "Call", from |-> n.trace.caller, to |-> n.trace.address,
          value |-> n.trace.value, gas |-> n.trace.gas_cost,
          input |-> to_raw(n.trace.data), call_type |-> n.trace.kind]
    ELSE [tag |-> "Create", from |-> n.trace.caller, value |-> n.trace.value,
          gas |-> n.trace.gas_cost, init |-> to_raw(n.trace.data)]

\* CallTraceNode::parity_action
parity_action(n) ==
    IF n.trace.status = "SelfDestruct"
    THEN [tag |-> "Suicide", address |-> n.trace.address,
          refund_address |-> DefaultAddress, balance |-> n.trace.value]
    ELSE IF IsCallKind(n.trace.kind)
    THEN [tag |-> "Call", from |-> n.trace.caller, to |-> n.trace.address,
          value |-> n.trace.value, gas |-> n.trace.gas_cost,
          input |-> to_raw(n.trace.data), call_type |-> n.trace.kind]
    ELSE [tag |-> "Create", from |-> n.trace.caller, value |-> n.trace.value,
          gas |-> n.trace.gas_cost, init |-> to_raw(n.trace.data)]

\* One StructLog of geth_trace
StructLog(n, step) ==
    [depth |-> n.trace.depth, error |-> None, gas |-> 0, gas_cost |-> 0,
     memory |-> Some(step.memory), op |-> step.op, pc |-> step.pc,
     refund_counter |-> None, stack |-> Some(step.stack),
     storage |-> [k \in DOMAIN step.state |-> step.state[k].storage]]

\* CallTraceNode::geth_trace
geth_trace(n) ==
    [failed |-> ~n.trace.success, gas |-> 0,
     return_value |-> to_raw(n.trace.output),
     struct_logs |-> [i \in 1..Len(n.trace.steps) |-> StructLog(n, n.trace.steps[i])]]

----------------------------------------------------------------------------
(* decode_function                                                         *)

\* bytes[SELECTOR_LEN..]
AfterSelector(bytes) == SubSeq(bytes, SELECTOR_LEN + 1, Len(bytes))

\* The let inputs = ... expression: the argument list, or the panic of
\* .expect("bad function input decode")
DecodeInputs(n, func, labels, cheat) ==
    LET bytes == n.trace.data.bytes
        generic == decode_input(func, AfterSelector(bytes))
    IN IF Len(bytes) >= SELECTOR_LEN
       THEN IF n.trace.address = CHEATCODE_ADDRESS
            THEN IF cheat # None THEN Ok(cheat[1])
                 ELSE IF generic.ok THEN Ok(LabelAll(generic.v, labels))
                 ELSE Err
            ELSE IF generic.ok THEN Ok(LabelAll(generic.v, labels))
                 ELSE Ok(<<>>)
       ELSE Ok(<<>>)

\* funcs.iter().find_map(|func| func.decode_output(bytes).ok())
FindMapDecodeOutput(funcs, bytes) ==
    LET hits == {i \in 1..Len(funcs) : decode_output(funcs[i], bytes).ok}
    IN IF hits = {} THEN None
       ELSE Some(decode_output(funcs[CHOOSE i \in hits : \A j \in hits : i <= j], bytes).v)

\* DecodeOutput without the test of tokens.is_empty()
DecodeOutput_NoEmptyGuard(n, funcs, labels, revert) ==
    LET bytes == n.trace.output.bytes
        found == FindMapDecodeOutput(funcs, bytes)
    IN IF bytes # <<>> /\ n.trace.success
       THEN IF found # None
            THEN DecodedReturn(Join(LabelAll(found[1], labels), ", "))
            ELSE n.trace.output
       ELSE IF revert.ok THEN DecodedReturn(Quote(revert.v))
       ELSE n.trace.output

\* DecodeOutput with decode_revert as the fallback of every output that no
\* candidate was accepted for, a successful call's included
DecodeOutput_RevertFallback(n, funcs, labels, revert) ==
    LET bytes == n.trace.output.bytes
        found == FindMapDecodeOutput(funcs, bytes)
    IN IF bytes # <<>> /\ n.trace.success /\ found # None /\ found[1] # <<>>
       THEN DecodedReturn(Join(LabelAll(found[1], labels), ", "))
       ELSE IF revert.ok THEN DecodedReturn(Quote(revert.v))
       ELSE n.trace.output

\* The return-data half of decode_function, entered with return data Raw:
\* the new value of trace.output
DecodeOutput(n, funcs, labels, revert) ==
    LET bytes == n.trace.output.bytes
        found == FindMapDecodeOutput(funcs, bytes)
    IN IF bytes # <<>> /\ n.trace.success
       THEN IF found # None /\ found[1] # <<>>
            THEN DecodedReturn(Join(LabelAll(found[1], labels), ", "))
            ELSE n.trace.output
       ELSE IF revert.ok THEN DecodedReturn(Quote(revert.v))
       ELSE n.trace.output

\* DecodeFunctionBody that also labels the node with the function's name
DecodeFunctionBody_SetsLabel(n, funcs, labels, cheat, revert) ==
    LET func == funcs[1]
        inputs == DecodeInputs(n, func, labels, cheat)
        n1 == [n EXCEPT !.trace.label = Some(func.name),
                        !.trace.data =
                            DecodedCall(func.name, Signature(func), inputs.v)]
    IN IF IsRaw(n.trace.data)
       THEN IF ~inputs.ok
            THEN [res |-> Panicked("bad function input decode"), node |-> n]
            ELSE IF IsRaw(n.trace.output)
            THEN [res |-> Returned("unit"),
                  node |-> [n1 EXCEPT !.trace.output =
                                DecodeOutput(n, funcs, labels, revert)]]
            ELSE [res |-> Returned("unit"), node |-> n1]
       ELSE [res |-> Returned("unit"), node |-> n]

\* The body of decode_function after let func = &funcs[0], for a non-empty funcs:
\* how the call ends and the node it leaves
DecodeFunctionBody(n, funcs, labels, cheat, revert) ==
    LET func == funcs[1]
        inputs == DecodeInputs(n, func, labels, cheat)
        n1 == [n EXCEPT !.trace.data =
                   DecodedCall(func.name, Signature(func), inputs.v)]
    IN IF IsRaw(n.trace.data)
       THEN IF ~inputs.ok
            THEN [res |-> Panicked("bad function input decode"), node |-> n]
            ELSE IF IsRaw(n.trace.output)
            THEN [res |-> Returned("unit"),
                  node |-> [n1 EXCEPT !.trace.output =
                                DecodeOutput(n, funcs, labels, revert)]]
            ELSE [res |-> Returned("unit"), node |-> n1]
       ELSE [res |-> Returned("unit"), node |-> n]

\* The panic of a call with no candidate: the debug_assert! of a debug build,
\* the bounds check of funcs[0] in a release build
Builds == {"debug", "release"}
EmptyFuncsPanic(build) ==
    IF build = "debug" THEN Panicked("requires at least 1 func")
    ELSE Panicked("index out of bounds: the len is 0 but the index is 0")

\* decode_function that returns early on Decoded call data before it looks at funcs
decode_function_NoopFirst(n, funcs, labels, cheat, revert, build) ==
    IF IsDecoded(n.trace.data)
    THEN [res |-> Returned("unit"), node |-> n]
    ELSE IF funcs = <<>>
    THEN [res |-> EmptyFuncsPanic(build), node |-> n]
    ELSE DecodeFunctionBody(n, funcs, labels, cheat, revert)

\* CallTraceNode::decode_function
decode_function(n, funcs, labels, cheat, revert, build) ==
    IF funcs = <<>>
    THEN [res |-> EmptyFuncsPanic(build), node |-> n]
    ELSE DecodeFunctionBody(n, funcs, labels, cheat, revert)

\* Whether this call reaches utils::decode_cheatcode_inputs
CheatConsulted(n, funcs) ==
    /\ funcs # <<>>
    /\ IsRaw(n.trace.data)
    /\ Len(n.trace.data.bytes) >= SELECTOR_LEN
    /\ n.trace.address = CHEATCODE_ADDRESS

\* Whether this call has raw output bytes that decode::decode_revert could be
\* given: revert is then what decode_revert returns on them (with the error ABI
\* and the status), whether or not the call gets to ask
RevertDefined(n, funcs) ==
    /\ funcs # <<>>
    /\ IsRaw(n.trace.data)
    /\ IsRaw(n.trace.output)

----------------------------------------------------------------------------
(* decode_precompile                                                       *)

\* The return-data half of decode_precompile: the Decoded return data
PrecompileOutput(n, precompile_fn, labels) ==
    LET out == decode_output(precompile_fn, n.trace.output.bytes)
    IN DecodedReturn(IF out.ok THEN Join(LabelAll(out.v, labels), ", ")
                     ELSE HexEncode(n.trace.output.bytes))

\* decode_precompile that decodes Raw return data whatever the call data is
decode_precompile_NoCallDataGuard(n, precompile_fn, labels) ==
    LET input == decode_input(precompile_fn, n.trace.data.bytes)
        n1 == IF IsRaw(n.trace.data)
              THEN [n EXCEPT !.trace.label = Some(PRECOMPILE),
                             !.trace.data =
                                 DecodedCall(precompile_fn.name,
                                             Signature(precompile_fn),
                                             IF input.ok
                                             THEN LabelAll(input.v, labels)
                                             ELSE <<HexEncode(n.trace.data.bytes)>>)]
              ELSE n
    IN IF IsRaw(n.trace.output)
       THEN [n1 EXCEPT !.trace.output = PrecompileOutput(n, precompile_fn, labels)]
       ELSE n1

\* decode_precompile that skips a selector, as decode_function does
decode_precompile_StripsSelector(n, precompile_fn, labels) ==
    LET bytes == n.trace.data.bytes
        input == decode_input(precompile_fn, AfterSelector(bytes))
        n1 == [n EXCEPT !.trace.label = Some(PRECOMPILE),
                        !.trace.data =
                            DecodedCall(precompile_fn.name, Signature(precompile_fn),
                                        IF input.ok THEN LabelAll(input.v, labels)
                                        ELSE <<HexEncode(bytes)>>)]
    IN IF IsRaw(n.trace.data)
       THEN IF IsRaw(n.trace.output)
            THEN [n1 EXCEPT !.trace.output =
                      PrecompileOutput(n, precompile_fn, labels)]
            ELSE n1
       ELSE n

\* CallTraceNode::decode_precompile
decode_precompile(n, precompile_fn, labels) ==
    LET bytes == n.trace.data.bytes
        input == decode_input(precompile_fn, bytes)
        n1 == [n EXCEPT !.trace.label = Some(PRECOMPILE),
                        !.trace.data =
                            DecodedCall(precompile_fn.name, Signature(precompile_fn),
                                        IF input.ok THEN LabelAll(input.v, labels)
                                        ELSE <<HexEncode(bytes)>>)]
    IN IF IsRaw(n.trace.data)
       THEN IF IsRaw(n.trace.output)
            THEN [n1 EXCEPT !.trace.output =
                      PrecompileOutput(n, precompile_fn, labels)]
            ELSE n1
       ELSE n

----------------------------------------------------------------------------
(* The calls                                                               *)

DecodeFunction ==
    /\ Running
    /\ \E funcs \in CandidateLists, labels \in LabelsPool :
       \E cheat \in (IF CheatConsulted(node, funcs) THEN CheatResults ELSE {None}) :
       \E revert \in (IF RevertDefined(node, funcs) THEN RevertResults ELSE {Err}) :
       \E build \in (IF funcs = <<>> THEN Builds ELSE {"debug"}) :
          LET r == decode_function(node, funcs, labels, cheat, revert, build)
          IN /\ node' = r.node
             /\ res' = r.res
             /\ call' = [op |-> "decode_function", funcs |-> funcs, labels |-> labels,
                         cheat |-> cheat, revert |-> revert]
    /\ pre' = node

DecodePrecompile ==
    /\ Running
    /\ \E precompile_fn \in PrecompilePool, labels \in LabelsPool :
          /\ node' = decode_precompile(node, precompile_fn, labels)
          /\ call' = [op |-> "decode_precompile", precompile_fn |-> precompile_fn,
                      labels |-> labels]
    /\ res' = Returned("unit")
    /\ pre' = node

ParityResult ==
    /\ Running
    /\ res' = Returned(parity_result(node))
    /\ call' = [op |-> "parity_result"]
    /\ pre' = node
    /\ UNCHANGED node

ParityAction ==
    /\ Running
    /\ res' = Returned(parity_action(node))
    /\ call' = [op |-> "parity_action"]
    /\ pre' = node
    /\ UNCHANGED node

GethTrace ==
    /\ Running
    /\ res' = Returned(geth_trace(node))
    /\ call' = [op |-> "geth_trace"]
    /\ pre' = node
    /\ UNCHANGED node

Next ==
    \/ DecodeFunction
    \/ DecodePrecompile
    \/ ParityResult
    \/ ParityAction
    \/ GethTrace

Spec == Init /\ [][Next]_vars

----------------------------------------------------------------------------
(* What the last call was, and on what                                     *)

\* decode_function was called with at least one candidate
CalledDecodeFunction == call.op = "decode_function" /\ call.funcs # <<>>

CalledDecodePrecompile == call.op = "decode_precompile"

CalledExporter == call.op \in {"parity_result", "parity_action", "geth_trace"}

\* The raw call data and the raw return data the call was entered with
PreInput == pre.trace.data.bytes
PreOutput == pre.trace.output.bytes

\* call data, return data and label are what they were when the call was entered
DecodeFieldsKept ==
    /\ node.trace.data = pre.trace.data
    /\ node.trace.output = pre.trace.output
    /\ node.trace.label = pre.trace.label

\* The candidates whose decode_output gives at least one token on the raw output
NonEmptyDecoders ==
    {i \in 1..Len(call.funcs) :
        /\ decode_output(call.funcs[i], PreOutput).ok
        /\ decode_output(call.funcs[i], PreOutput).v # <<>>}

FirstNonEmptyDecoder == CHOOSE i \in NonEmptyDecoders : \A j \in NonEmptyDecoders : i <= j

\* No candidate's decode_output succeeds on the raw output
NoCandidateDecodes ==
    \A i \in 1..Len(call.funcs) : ~decode_output(call.funcs[i], PreOutput).ok

\* Every candidate's decode_output succeeds with no token on the raw output
AllCandidatesDecodeEmpty ==
    \A i \in 1..Len(call.funcs) : decode_output(call.funcs[i], PreOutput) = Ok(<<>>)

----------------------------------------------------------------------------
(* The claims                                                              *)

\* C1: a decode_function call (at least one candidate) or a decode_precompile call
\* made while the node's call data is Decoded changes neither the call data, nor
\* the return data (Raw or not), nor the label; and a return data that is Decoded
\* when such a call is made is the same after it.
C1_DecodedIsFinal ==
    (CalledDecodeFunction \/ CalledDecodePrecompile) =>
        /\ IsDecoded(pre.trace.data) => DecodeFieldsKept
        /\ IsDecoded(pre.trace.output) => node.trace.output = pre.trace.output

\* C1 witness: decode_function on Decoded call data whose return data is still
\* Raw and would be decoded by the first candidate.
C1_Witness ==
    /\ CalledDecodeFunction
    /\ IsDecoded(pre.trace.data)
    /\ IsRaw(pre.trace.output)
    /\ pre.trace.success
    /\ NonEmptyDecoders # {}
    /\ res.outcome = "returned"

\* C2 (as claimed): a decode_function call with at least one candidate returns,
\* and when the target is the cheat address, the input has a selector and both
\* the cheat decode and the generic decode fail, it returns with Decoded call data.
C2_NeverFailsHard ==
    CalledDecodeFunction =>
        /\ res.outcome = "returned"
        /\ ( /\ IsRaw(pre.trace.data)
             /\ pre.trace.address = CHEATCODE_ADDRESS
             /\ Len(PreInput) >= SELECTOR_LEN
             /\ call.cheat = None
             /\ ~decode_input(call.funcs[1], AfterSelector(PreInput)).ok )
           => IsDecoded(node.trace.data)

\* C3 (as claimed): a returning decode_function on Raw call data and Raw return
\* data of a successful call with non-empty output leaves the return data Decoded
\* from the first candidate whose decode_output gives a non-empty token list.
C3_FirstNonEmptyAccepted ==
    ( /\ CalledDecodeFunction
      /\ res.outcome = "returned"
      /\ IsRaw(pre.trace.data)
      /\ IsRaw(pre.trace.output)
      /\ pre.trace.success
      /\ PreOutput # <<>>
      /\ NonEmptyDecoders # {} )
    => node.trace.output =
           DecodedReturn(Join(LabelAll(
               decode_output(call.funcs[FirstNonEmptyDecoder], PreOutput).v,
               call.labels), ", "))

C5_EmptyTupleGuard ==
    ( /\ CalledDecodeFunction
      /\ pre.trace.success
      /\ IsRaw(pre.trace.output)
      /\ PreOutput # <<>>
      /\ AllCandidatesDecodeEmpty )
    => /\ IsRaw(node.trace.output)
       /\ node.trace.output.bytes = PreOutput

\* C5 witness: such a call that did decode the call data, with a decode_revert
\* that would have succeeded.
C5_Witness ==
    /\ CalledDecodeFunction
    /\ pre.trace.success
    /\ IsRaw(pre.trace.data)
    /\ IsRaw(pre.trace.output)
    /\ PreOutput # <<>>
    /\ AllCandidatesDecodeEmpty
    /\ call.revert.ok
    /\ IsDecoded(node.trace.data)

\* C6: parity_action of a node whose status is self-destruct is a Suicide of the
\* call target with the transferred value and the default refund address, for
\* every call kind; of any other node it is a Call for the four call kinds and a
\* Create for Create and Create2.
C6_ParityAction ==
    call.op = "parity_action" =>
        IF node.trace.status = "SelfDestruct"
        THEN res.value = [tag |-> "Suicide", address |-> node.trace.address,
                          refund_address |-> DefaultAddress,
                          balance |-> node.trace.value]
        ELSE res.value.tag =
                 IF node.trace.kind \in {"Create", "Create2"} THEN "Create" ELSE "Call"

\* C6 witness: parity_action of a self-destructed Create2.
C6_Witness ==
    /\ call.op = "parity_action"
    /\ node.trace.status = "SelfDestruct"
    /\ node.trace.kind = "Create2"
    /\ res.value.tag = "Suicide"

\* C7 (as claimed): after decode_function (at least one candidate) on Raw call
\* data, the call data is Decoded with the first candidate's name and signature,
\* with no argument when the input is shorter than a selector, and with no
\* argument when the target is not the cheat address and the generic decode fails.
C7_DecodedWithFirstCandidate ==
    (CalledDecodeFunction /\ IsRaw(pre.trace.data)) =>
        /\ IsDecoded(node.trace.data)
        /\ node.trace.data.name = call.funcs[1].name
        /\ node.trace.data.signature = Signature(call.funcs[1])
        /\ Len(PreInput) < SELECTOR_LEN => node.trace.data.args = <<>>
        /\ ( /\ pre.trace.address # CHEATCODE_ADDRESS
             /\ ~decode_input(call.funcs[1], AfterSelector(PreInput)).ok )
           => node.trace.data.args = <<>>

C9_EmptyFuncsPanics ==
    (call.op = "decode_function" /\ call.funcs = <<>>) =>
        /\ res.outcome = "panicked"
        /\ node = pre

\* C9 witness: the panic of a call with no candidate on Decoded call data.
C9_Witness ==
    /\ call.op = "decode_function"
    /\ call.funcs = <<>>
    /\ IsDecoded(pre.trace.data)
    /\ res.outcome = "panicked"

\* The CallTrace fields other than call data and return data
OtherTraceFields(n) ==
    <<n.trace.caller, n.trace.address, n.trace.kind, n.trace.value,
      n.trace.gas_cost, n.trace.success, n.trace.status, n.trace.depth,
      n.trace.label, n.trace.steps>>

\* C10: no call changes the node's parent, children, idx, logs or ordering, so
\* ordering stays as long as children and logs together; an exporter changes
\* nothing of the node; decode_function changes no CallTrace field other than
\* call data and return data.
C10_Frame ==
    /\ node.parent = pre.parent
    /\ node.children = pre.children
    /\ node.idx = pre.idx
    /\ node.logs = pre.logs
    /\ node.ordering = pre.ordering
    /\ Len(node.ordering) = Len(node.children) + Len(node.logs)
    /\ CalledExporter => node = pre
    /\ call.op = "decode_function" => OtherTraceFields(node) = OtherTraceFields(pre)

\* C10 witness: a decode_function that changed a node with a child and a log.
C10_Witness ==
    /\ CalledDecodeFunction
    /\ node # pre
    /\ Len(node.children) = 1
    /\ Len(node.logs) = 1
    /\ Len(node.ordering) = 2

====
